---- MODULE Spec2Model ----
(***************************************************************************)
(* Model of ChopChop's job orchestration (app/main.py): the in-memory job  *)
(* registry `jobs`, the upload handler, the background thread process_job, *)
(* the status handler and the download handler with its cleanup task.      *)
(*                                                                         *)
(* Conventions.                                                            *)
(*  - A Python Optional value is a sequence: <<>> is None, <<v>> is v.     *)
(*  - A Python float is an exact rational <<n, d>> with d > 0.             *)
(*  - Every action is one step of one thread between two accesses to the   *)
(*    shared state (the dict `jobs`, the job directory on disk).           *)
(*  - Job identifiers are uuid4 values: a client can name an identifier    *)
(*    only after upload has returned it; any other identifier a client     *)
(*    sends is one that upload never generates (identifier 0 here).        *)
(***************************************************************************)
EXTENDS Integers, Sequences, FiniteSets, TLC

\* ------------------------------------------------------------------ bounds
MaxReq == 2
MaxCount == 2
MaxDuration == 2
MaxParts == 2
MaxTarget == 3
MaxBitRate == 1
MaxSize == 1

\* 1024 * 1024, the bytes of one megabyte (line 126)
MiB == 1048576

VARIABLES jobs, disk, up, run, req, resp, hist, polled

vars == <<jobs, disk, up, run, req, resp, hist, polled>>

\* the identifiers upload generates in a run, and with them 0, which it never
\* generates
OneJob == {1}
TwoJobs == {1, 2}
JobIds == DOMAIN up
AllIds == {0} \cup JobIds
Slots == 1..MaxReq

None == <<>>
Some(v) == <<v>>

\* ---------------------------------------------------------------- rationals
RECURSIVE Gcd(_, _)
Gcd(a, b) == IF b = 0 THEN a ELSE Gcd(b, a % b)

Rat(n, d) == LET g == Gcd(n, d) IN IF g = 0 THEN <<0, 1>> ELSE <<n \div g, d \div g>>
RLeq(a, b) == a[1] * b[2] <= b[1] * a[2]
RLess(a, b) == a[1] * b[2] < b[1] * a[2]
RDiv(a, b) == Rat(a[1] * b[2], a[2] * b[1])
RMul(a, b) == Rat(a[1] * b[1], a[2] * b[2])
\* Python's max(a, b): b only when it is strictly greater
RMax(a, b) == IF RLess(a, b) THEN b ELSE a
\* int(x) for x >= 0: truncation
RInt(a) == a[1] \div a[2]
\* math.ceil(x) for x >= 0
RCeil(a) == (a[1] + a[2] - 1) \div a[2]
One == <<1, 1>>
Zero == <<0, 1>>

\* ------------------------------------------------------------------ inputs
Modes == {"count", "size", "other"}
CountInputs == {None} \cup {Some(c) : c \in 0..MaxCount}
\* size_mb in half bytes: k / (2 * MiB) megabytes
SizeInputs == {None} \cup {Some(Rat(k, 2 * MiB)) : k \in 0..MaxTarget}
\* the form fields a client sends; a field the mode does not use is left out
Forms ==
  {f \in [mode : Modes, count : CountInputs, size_mb : SizeInputs] :
     /\ f.mode # "count" => f.count = None
     /\ f.mode # "size" => f.size_mb = None}

Durations == {None} \cup {Some(d) : d \in 0..MaxDuration}
BitRates == {None} \cup {Some(b * 8) : b \in 0..MaxBitRate}
FileSizes == 0..MaxSize

\* ------------------------------------------------------------------ records
QueuedRecord ==
  [status |-> "queued", message |-> "queued", total_parts |-> None,
   completed_parts |-> 0, zip |-> None]

StartingRecord ==
  [status |-> "processing", message |-> "starting", total_parts |-> None,
   completed_parts |-> 0, zip |-> None]

NoDisk == [dir |-> FALSE, input |-> FALSE, out |-> FALSE, parts |-> 0, zip |-> FALSE]

IdleRun == [pc |-> "idle", params |-> None, duration |-> None, info |-> None,
            seg_seconds |-> None, produced |-> None]

IdleReq == [pc |-> "idle", id |-> 0]

\* no response: the latest step answered no request
NoResp == [op |-> "none", id |-> 0, result |-> "none", view |-> None]

NoHist == [trace |-> <<>>, bad_duration |-> FALSE, enumerated |-> None,
           reclaimed |-> FALSE, detached |-> None]

\* the state after the module is loaded, for the identifiers of the set ids
Start(ids) ==
  /\ jobs = <<>>
  /\ disk = [j \in ids |-> NoDisk]
  /\ up = [j \in ids |-> "idle"]
  /\ run = [j \in ids |-> IdleRun]
  /\ req = [r \in Slots |-> IdleReq]
  /\ resp = NoResp
  /\ hist = [j \in ids |-> NoHist]
  /\ polled = [j \in ids |-> None]

Init == Start(OneJob)

InitTwo == Start(TwoJobs)

\* ------------------------------------------------------- registry and disk
\* jobs[job_id] = rec: a fresh dict bound to the key
Bind(j, rec) == (j :> rec) @@ jobs

\* jobs.pop(job_id, None)
Pop(j) == [x \in (DOMAIN jobs) \ {j} |-> jobs[x]]

\* the response the client of an operation receives in this step
Silent == resp' = NoResp

Respond(op, id, result) ==
  resp' = [op |-> op, id |-> id, result |-> result, view |-> None]

\* what the registry holds under an identifier
Lookup(reg, id) == IF id \in DOMAIN reg THEN Some(reg[id]) ELSE None

\* the latest answer of status for each identifier upload generates and the
\* number of calls that returned it (1, or 2 for more), forgotten when the
\* registry's entry for the identifier changes
Polled ==
  polled' =
    [i \in JobIds |->
       IF resp'.op = "status" /\ resp'.id = i
         THEN LET a == [result |-> resp'.result, view |-> resp'.view] IN
              Some([answer |-> a,
                    calls |-> IF polled[i] # None /\ polled[i][1].answer = a
                                THEN 2 ELSE 1])
         ELSE IF Lookup(jobs', i) = Lookup(jobs, i) THEN polled[i] ELSE None]

\* ------------------------------------------------------------------ upload
\* a variant whose size test is `< 0`
valid_form_zero_size(f) ==
  /\ f.mode \in {"count", "size"}
  /\ ~(f.mode = "count" /\ (f.count = None \/ f.count[1] <= 0))
  /\ ~(f.mode = "size" /\ (f.size_mb = None \/ RLess(f.size_mb[1], Zero)))

\* lines 174-181: the form is accepted
valid_form(f) ==
  /\ f.mode \in {"count", "size"}
  /\ ~(f.mode = "count" /\ (f.count = None \/ f.count[1] <= 0))
  /\ ~(f.mode = "size" /\ (f.size_mb = None \/ RLeq(f.size_mb[1], Zero)))

\* lines 174-181: a 400 response, before anything is created
upload_reject(f) ==
  /\ ~valid_form(f)
  /\ Respond("upload", 0, "ValidationError")
  /\ UNCHANGED <<jobs, disk, up, run, req, hist>>
  /\ Polled

\* lines 183-202: a fresh identifier, the job directory, the saved input.
\* file.filename is the client's text, joined to input_dir as it is (line
\* 189): name 0 is a plain file name, name b is a relative path into the
\* output directory of job b (../../b/output/x), which open() follows when
\* that directory exists and fails on otherwise (the handler then raises).
\* The identifier j is drawn after the client has sent the name, so the name
\* is of a job the client holds.
upload_save(j, f, name) ==
  /\ valid_form(f)
  /\ up[j] = "idle"
  /\ name # j
  /\ IF name \in JobIds THEN up[name] = "returned" ELSE TRUE
  /\ IF name = 0
       THEN /\ disk' = [disk EXCEPT ![j].dir = TRUE, ![j].input = TRUE]
            /\ up' = [up EXCEPT ![j] = "saved"]
            /\ run' = [run EXCEPT ![j].params = Some(f)]
            /\ Silent
       ELSE IF disk[name].out
         THEN /\ disk' = [disk EXCEPT ![j].dir = TRUE, ![name].parts = @ + 1]
              /\ up' = [up EXCEPT ![j] = "saved"]
              /\ run' = [run EXCEPT ![j].params = Some(f)]
              /\ Silent
         ELSE /\ disk' = [disk EXCEPT ![j].dir = TRUE]
              /\ up' = [up EXCEPT ![j] = "failed"]
              /\ Respond("upload", 0, "ServerError")
              /\ UNCHANGED run
  /\ UNCHANGED <<jobs, req, hist>>
  /\ Polled

\* lines 205-206: the background thread is started
upload_start(j) ==
  /\ up[j] = "saved"
  /\ up' = [up EXCEPT ![j] = "started"]
  /\ run' = [run EXCEPT ![j].pc = "r94"]
  /\ UNCHANGED <<jobs, disk, req, hist>> /\ Silent
  /\ Polled

\* lines 208-209: the queued record is bound and the identifier returned
upload_queued(j) ==
  /\ up[j] = "started"
  /\ up' = [up EXCEPT ![j] = "returned"]
  /\ jobs' = Bind(j, QueuedRecord)
  /\ Respond("upload", j, "JobId")
  /\ UNCHANGED <<disk, run, req, hist>>
  /\ Polled

\* ------------------------------------------------------------- process_job
\* the steps of process_job in the order of its text
Order ==
  <<"start", "probe", "validate", "plan", "split", "enumerate", "package", "finish">>

\* the thread ends (line 160); its locals die with it
Ended == [IdleRun EXCEPT !.pc = "done"]

\* a step that went through
Traced(j, step) == [hist EXCEPT ![j].trace = Append(@, step)]

\* a variant that drops the record of a failed job
error_update_drop(j, msg) == [x \in (DOMAIN jobs) \ {j} |-> jobs[x]]

\* jobs[job_id].update({"status": "error", "message": msg}) (lines 101, 119,
\* 137, 145, 157). With no record under the key the update raises KeyError,
\* which the `return` of the finally clause (line 160) swallows.
error_update(j, msg) ==
  IF j \in DOMAIN jobs
    THEN [jobs EXCEPT ![j].status = "error", ![j].message = msg]
    ELSE jobs

\* a failing step: the error is recorded and the thread returns
fail(j, step, msg) ==
  /\ jobs' = error_update(j, msg)
  /\ run' = [run EXCEPT ![j] = Ended]
  /\ hist' = [hist EXCEPT ![j].trace = @ \o <<step, "error">>]

\* line 94
start94(j) ==
  /\ run[j].pc = "r94"
  /\ jobs' = Bind(j, StartingRecord)
  /\ run' = [run EXCEPT ![j].pc = "r97"]
  /\ hist' = Traced(j, "start")
  /\ UNCHANGED <<disk, up, req>> /\ Silent
  /\ Polled

\* lines 43-65: what ffprobe_info can return for the bit rate and the size.
\* Only the size mode reads them (lines 129-134), so only there are they kept.
Infos(f) ==
  IF f.mode = "size"
    THEN {Some(i) : i \in [bit_rate : BitRates, size : FileSizes]}
    ELSE {None}

\* lines 96-99: ffprobe_info returns a duration, a bit rate and a size, or
\* raises (float("N/A"), json.loads of a bad output)
probe97(j) ==
  /\ run[j].pc = "r97"
  /\ \/ \E d \in Durations, i \in Infos(run[j].params[1]) :
          /\ run' = [run EXCEPT ![j].pc = "r100", ![j].duration = d, ![j].info = i]
          /\ hist' = [Traced(j, "probe") EXCEPT
                        ![j].bad_duration = (d = None \/ d[1] <= 0)]
          /\ UNCHANGED jobs
     \/ fail(j, "probe", "exception")
  /\ UNCHANGED <<disk, up, req>> /\ Silent
  /\ Polled

\* lines 100-109: the duration is validated, the output directory made
validate100(j) ==
  /\ run[j].pc = "r100"
  /\ LET d == run[j].duration IN
     IF d = None \/ d[1] <= 0
       THEN /\ fail(j, "validate", "Could not determine video duration.")
            /\ UNCHANGED disk
       ELSE /\ disk' = [disk EXCEPT ![j].out = TRUE]
            /\ run' = [run EXCEPT ![j].pc = "plan"]
            /\ hist' = Traced(j, "validate")
            /\ UNCHANGED jobs
  /\ UNCHANGED <<up, req>> /\ Silent
  /\ Polled

\* a variant that clamps the segment length at one second
count_plan_clamped(duration, count) ==
  [seg_seconds |-> RMax(One, Rat(duration, count)), total_parts |-> count]

\* lines 112-115: the count-mode plan
count_plan(duration, count) ==
  [seg_seconds |-> Rat(duration, count), total_parts |-> count]

\* a variant that rounds the bytes up
target_bytes_ceil(size_mb) == RCeil(RMul(size_mb, <<MiB, 1>>))

\* line 126: int(size_mb * 1024 * 1024)
target_bytes(size_mb) == RInt(RMul(size_mb, <<MiB, 1>>))

\* lines 129-134: bit_rate / 8.0 when the bit rate is known and not 0,
\* size / duration otherwise
bytes_per_sec(bit_rate, size, duration) ==
  IF bit_rate # None /\ bit_rate[1] # 0
    THEN Rat(bit_rate[1], 8)
    ELSE Rat(size, duration)

\* a variant that clamps the segment length at half a second
size_plan_half(duration, target, bps) ==
  LET seg == RMax(<<1, 2>>, RDiv(<<target, 1>>, bps)) IN
  [seg_seconds |-> seg, total_parts |-> RCeil(RDiv(<<duration, 1>>, seg))]

\* lines 140-141: the size-mode plan
size_plan(duration, target, bps) ==
  LET seg == RMax(One, RDiv(<<target, 1>>, bps)) IN
  [seg_seconds |-> seg, total_parts |-> RCeil(RDiv(<<duration, 1>>, seg))]

\* lines 116, 142: the plan is recorded and the thread goes on to the split
plan_update(j, p) ==
  IF j \in DOMAIN jobs
    THEN /\ jobs' = [jobs EXCEPT ![j].message = "splitting",
                                 ![j].total_parts = Some(p.total_parts)]
         /\ run' = [run EXCEPT ![j].pc = "split",
                               ![j].seg_seconds = Some(p.seg_seconds)]
         /\ hist' = Traced(j, "plan")
    ELSE fail(j, "plan", "KeyError")

\* lines 111-116 and 122-142
plan(j) ==
  /\ run[j].pc = "plan"
  /\ LET f == run[j].params[1]
         d == run[j].duration[1]
     IN IF f.mode = "count"
          THEN plan_update(j, count_plan(d, f.count[1]))
          ELSE LET i == run[j].info[1]
                   bps == bytes_per_sec(i.bit_rate, i.size, d) IN
                 IF RLeq(bps, Zero)
                   THEN fail(j, "plan",
                             "Could not determine bytes-per-second for size estimation.")
                   ELSE plan_update(j, size_plan(d, target_bytes(f.size_mb[1]), bps))
  /\ UNCHANGED <<disk, up, req>> /\ Silent
  /\ Polled

\* the thread past the split: params, duration, info and seg_seconds are not
\* read again (lines 149-155 read out_dir and job_dir only)
Splitted == [IdleRun EXCEPT !.pc = "r149"]

\* a variant without the `return` of lines 120 and 146
split_failed_fallthrough(j) ==
  /\ jobs' = error_update(j, "ffmpeg failed")
  /\ run' = [run EXCEPT ![j] = Splitted]
  /\ hist' = [hist EXCEPT ![j].trace = @ \o <<"split", "error">>]

\* lines 118-120 and 144-146: ffmpeg returned non-zero
split_failed(j) == fail(j, "split", "ffmpeg failed")

\* lines 117-120 and 143-146: create_segments_by_duration runs ffmpeg with the
\* planned segment length; it leaves any number of parts and returns rc, or
\* raises (no ffmpeg to run)
split(j) ==
  /\ run[j].pc = "split"
  /\ \/ \E n \in 0..MaxParts :
          /\ disk' = [disk EXCEPT ![j].parts = @ + n]
          /\ \/ /\ run' = [run EXCEPT ![j] = Splitted]
                /\ hist' = Traced(j, "split")
                /\ UNCHANGED jobs
             \/ split_failed(j)
     \/ /\ fail(j, "split", "exception")
        /\ UNCHANGED disk
  /\ UNCHANGED <<up, req>> /\ Silent
  /\ Polled

\* lines 149-150: the files of the output directory are counted and recorded
enumerate149(j) ==
  /\ run[j].pc = "r149"
  /\ LET n == disk[j].parts IN
     IF j \in DOMAIN jobs
       THEN /\ jobs' = [jobs EXCEPT ![j].completed_parts = n,
                                    ![j].total_parts = Some(n)]
            /\ run' = [run EXCEPT ![j].pc = "r154", ![j].produced = Some(n)]
            /\ hist' = [Traced(j, "enumerate") EXCEPT ![j].enumerated = Some(n)]
       ELSE fail(j, "enumerate", "KeyError")
  /\ UNCHANGED <<disk, up, req>> /\ Silent
  /\ Polled

\* lines 153-154: package_zip writes the archive, or raises part-way
package154(j) ==
  /\ run[j].pc = "r154"
  /\ \/ /\ disk' = [disk EXCEPT ![j].zip = TRUE]
        /\ run' = [run EXCEPT ![j].pc = "r155"]
        /\ hist' = Traced(j, "package")
        /\ UNCHANGED jobs
     \/ /\ \E left \in BOOLEAN : disk' = [disk EXCEPT ![j].zip = left]
        /\ fail(j, "package", "exception")
  /\ UNCHANGED <<up, req>> /\ Silent
  /\ Polled

\* a variant that records the archive without marking the job finished
finish_update_zip_only(rec, j) == [rec EXCEPT !.message = "done", !.zip = Some(j)]

\* line 155: status, message and zip are written in one dict.update
finish_update(rec, j) ==
  [rec EXCEPT !.status = "finished", !.message = "done", !.zip = Some(j)]

finish155(j) ==
  /\ run[j].pc = "r155"
  /\ IF j \in DOMAIN jobs
       THEN /\ jobs' = [jobs EXCEPT ![j] = finish_update(@, j)]
            /\ run' = [run EXCEPT ![j] = Ended]
            /\ hist' = Traced(j, "finish")
       ELSE fail(j, "finish", "KeyError")
  /\ UNCHANGED <<disk, up, req>> /\ Silent
  /\ Polled

\* ------------------------------------------------------------------ status
\* lines 211-216: a client polls an identifier it holds, or one never issued
Known(id) == IF id \in JobIds THEN up[id] = "returned" ELSE TRUE

\* a variant that takes the record out of the registry as it reads it
status_pop(id) ==
  /\ Known(id)
  /\ resp' = [op |-> "status", id |-> id,
              result |-> IF id \in DOMAIN jobs THEN jobs[id].status ELSE "NotFound",
              view |-> Lookup(jobs, id)]
  /\ jobs' = Pop(id)
  /\ UNCHANGED <<disk, up, run, req, hist>>
  /\ Polled

\* lines 211-216: the answer is the record itself, or a 404
status(id) ==
  /\ Known(id)
  /\ resp' = [op |-> "status", id |-> id,
              result |-> IF id \in DOMAIN jobs THEN jobs[id].status ELSE "NotFound",
              view |-> Lookup(jobs, id)]
  /\ UNCHANGED <<jobs, disk, up, run, req, hist>>
  /\ Polled

\* ---------------------------------------------------------------- download
\* the dict a handler holds as `job`: the registry's while it is bound, the
\* popped one afterwards
job_of(id) == IF id \in DOMAIN jobs THEN jobs[id] ELSE hist[id].detached[1]

\* lines 220-222
download220(r, id) ==
  /\ req[r].pc = "idle"
  /\ Known(id)
  /\ IF id \in DOMAIN jobs
       THEN /\ req' = [req EXCEPT ![r] = [pc |-> "d223", id |-> id]]
            /\ Silent
       ELSE /\ Respond("download", id, "NotFound")
            /\ UNCHANGED req
  /\ UNCHANGED <<jobs, disk, up, run, hist>>
  /\ Polled

\* a variant that answers 404 for a job that is not finished
download223_404(r) ==
  /\ req[r].pc = "d223"
  /\ IF job_of(req[r].id).status # "finished"
       THEN /\ Respond("download", req[r].id, "NotFound")
            /\ req' = [req EXCEPT ![r] = IdleReq]
       ELSE /\ req' = [req EXCEPT ![r].pc = "d226"]
            /\ Silent
  /\ UNCHANGED <<jobs, disk, up, run, hist>>
  /\ Polled

\* lines 223-224
download223(r) ==
  /\ req[r].pc = "d223"
  /\ IF job_of(req[r].id).status # "finished"
       THEN /\ Respond("download", req[r].id, "NotReady")
            /\ req' = [req EXCEPT ![r] = IdleReq]
       ELSE /\ req' = [req EXCEPT ![r].pc = "d226"]
            /\ Silent
  /\ UNCHANGED <<jobs, disk, up, run, hist>>
  /\ Polled

\* lines 225-240: the archive must exist; cleanup is scheduled and the
\* FileResponse returned
download226(r) ==
  /\ req[r].pc = "d226"
  /\ IF ~disk[job_of(req[r].id).zip[1]].zip
       THEN /\ Respond("download", req[r].id, "NotFound")
            /\ req' = [req EXCEPT ![r] = IdleReq]
       ELSE /\ req' = [req EXCEPT ![r].pc = "send"]
            /\ Silent
  /\ UNCHANGED <<jobs, disk, up, run, hist>>
  /\ Polled

\* line 240: the FileResponse streams the archive, then runs the background
\* task; with the file gone it raises and the task is not run
send(r) ==
  /\ req[r].pc = "send"
  /\ IF disk[req[r].id].zip
       THEN /\ Respond("download", req[r].id, "Archive")
            /\ req' = [req EXCEPT ![r].pc = "c234"]
       ELSE /\ Respond("download", req[r].id, "StreamFailed")
            /\ req' = [req EXCEPT ![r] = IdleReq]
  /\ UNCHANGED <<jobs, disk, up, run, hist>>
  /\ Polled

\* lines 231-234: shutil.rmtree(parent); a missing directory raises, and the
\* except clause ends the task
cleanup234(r) ==
  /\ req[r].pc = "c234"
  /\ LET id == req[r].id IN
     IF disk[id].dir
       THEN /\ disk' = [disk EXCEPT ![id] = NoDisk]
            /\ req' = [req EXCEPT ![r].pc = "c235"]
            /\ UNCHANGED hist
       ELSE /\ req' = [req EXCEPT ![r] = IdleReq]
            /\ hist' = [hist EXCEPT ![id].reclaimed = TRUE]
            /\ UNCHANGED disk
  /\ UNCHANGED <<jobs, up, run>> /\ Silent
  /\ Polled

\* line 235: jobs.pop(job_id, None)
cleanup235(r) ==
  /\ req[r].pc = "c235"
  /\ LET id == req[r].id IN
     /\ jobs' = Pop(id)
     /\ hist' = [hist EXCEPT ![id].reclaimed = TRUE,
                             ![id].detached = IF id \in DOMAIN jobs
                                                THEN Some(jobs[id]) ELSE @]
  /\ req' = [req EXCEPT ![r] = IdleReq]
  /\ UNCHANGED <<disk, up, run>> /\ Silent
  /\ Polled

\* -------------------------------------------------------------------- spec
Next ==
  \/ \E f \in Forms : upload_reject(f)
  \/ \E j \in JobIds, f \in Forms, name \in AllIds : upload_save(j, f, name)
  \/ \E j \in JobIds : upload_start(j)
  \/ \E j \in JobIds : upload_queued(j)
  \/ \E j \in JobIds : start94(j)
  \/ \E j \in JobIds : probe97(j)
  \/ \E j \in JobIds : validate100(j)
  \/ \E j \in JobIds : plan(j)
  \/ \E j \in JobIds : split(j)
  \/ \E j \in JobIds : enumerate149(j)
  \/ \E j \in JobIds : package154(j)
  \/ \E j \in JobIds : finish155(j)
  \/ \E id \in AllIds : status(id)
  \/ \E r \in Slots, id \in AllIds : download220(r, id)
  \/ \E r \in Slots : download223(r)
  \/ \E r \in Slots : download226(r)
  \/ \E r \in Slots : send(r)
  \/ \E r \in Slots : cleanup234(r)
  \/ \E r \in Slots : cleanup235(r)

Spec == Init /\ [][Next]_vars

\* ---------------------------------------------------------------- two jobs
\* the inputs of the two-job runs: count mode with one part, a source of one
\* second or one ffprobe cannot read, at most one part from the split
Small ==
  \A j \in JobIds :
    /\ run[j].params \in {None, Some([mode |-> "count", count |-> Some(1), size_mb |-> None])}
    /\ run[j].duration \in {None, Some(1)}
    /\ run[j].pc = "r149" => disk[j].parts <= 1

\* the steps of Submit, the Runner and Retrieve with its reclamation, for two
\* jobs and one request at a time
NextTwo ==
  \/ \E f \in Forms : upload_reject(f)
  \/ \E j \in JobIds, f \in Forms, name \in AllIds : upload_save(j, f, name) /\ Small'
  \/ \E j \in JobIds : upload_start(j)
  \/ \E j \in JobIds : upload_queued(j)
  \/ \E j \in JobIds : start94(j)
  \/ \E j \in JobIds : probe97(j) /\ Small'
  \/ \E j \in JobIds : validate100(j)
  \/ \E j \in JobIds : plan(j)
  \/ \E j \in JobIds : split(j) /\ Small'
  \/ \E j \in JobIds : enumerate149(j)
  \/ \E j \in JobIds : package154(j)
  \/ \E j \in JobIds : finish155(j)
  \/ \E id \in AllIds : download220(1, id)
  \/ download223(1)
  \/ download226(1)
  \/ send(1)
  \/ cleanup234(1)
  \/ cleanup235(1)

SpecTwo == InitTwo /\ [][NextTwo]_vars

\* ------------------------------------------------------------------ claims
Bound(j) == j \in DOMAIN jobs

\* the terminal states (spec section 4.4)
Terminal == {"finished", "error"}

\* the status changes of the state machine (spec section 4.4)
AllowedChanges ==
  {<<"queued", "processing">>, <<"processing", "finished">>,
   <<"processing", "error">>, <<"queued", "error">>}

\* C1: every change of the status stored in a job's record is one of
\* queued->processing, processing->finished, processing->error, queued->error;
\* the queued record of Submit never replaces a record the Runner has written.
C1_StatusChanges ==
  [][\A j \in JobIds :
       (Bound(j) /\ j \in DOMAIN jobs' /\ jobs'[j].status # jobs[j].status)
         => <<jobs[j].status, jobs'[j].status>> \in AllowedChanges]_vars

\* C2: once a record is finished or error, its status, total_parts and
\* completed_parts never change while the record exists.
C2_TerminalFrozen ==
  [][\A j \in JobIds :
       (Bound(j) /\ jobs[j].status \in Terminal /\ j \in DOMAIN jobs')
         => /\ jobs'[j].status = jobs[j].status
            /\ jobs'[j].total_parts = jobs[j].total_parts
            /\ jobs'[j].completed_parts = jobs[j].completed_parts]_vars

\* C3: every accepted submission ends with a terminal status: when the upload
\* handler has returned and the Runner thread has ended, nothing is left to
\* move the record, so it is finished or error by then (or already reclaimed).
C3_EndsTerminal ==
  \A j \in JobIds :
    (up[j] = "returned" /\ run[j].pc = "done" /\ Bound(j))
      => jobs[j].status \in Terminal

\* C4: for every record of the registry, zip is non-null iff status = finished.
C4_ZipIffFinished ==
  \A j \in DOMAIN jobs : (jobs[j].zip # None) <=> (jobs[j].status = "finished")

C4_Witness ==
  \E j \in DOMAIN jobs :
    /\ jobs[j].status = "finished"
    /\ jobs[j].zip = Some(j)
    /\ up[j] = "returned"

\* C5: whenever a record is finished, completed_parts = total_parts = the
\* number of files the Runner enumerated after the split.
C5_FinishedCounts ==
  \A j \in DOMAIN jobs :
    jobs[j].status = "finished"
      => /\ hist[j].enumerated # None
         /\ jobs[j].total_parts = hist[j].enumerated
         /\ jobs[j].completed_parts = hist[j].enumerated[1]

\* C6: a job whose probe returns a null or non-positive duration never plans,
\* splits or packages, never shows finished, and ends in error.
C6_BadDurationEndsError ==
  \A j \in JobIds :
    hist[j].bad_duration
      => /\ \A i \in 1..Len(hist[j].trace) :
              hist[j].trace[i] \in {"start", "probe", "validate", "error"}
         /\ Bound(j) => jobs[j].status # "finished"
         /\ (up[j] = "returned" /\ run[j].pc = "done")
              => (Bound(j) /\ jobs[j].status = "error")

ErrorMessages ==
  {"Could not determine video duration.", "ffmpeg failed", "exception", "KeyError",
   "Could not determine bytes-per-second for size estimation."}

IsPrefix(s, t) == Len(s) <= Len(t) /\ \A i \in 1..Len(s) : s[i] = t[i]

Failed(tr) == Len(tr) > 0 /\ tr[Len(tr)] = "error"

\* the steps executed are a prefix of Order, closed by "error" when one failed
InOrder(tr) ==
  IF Failed(tr) THEN IsPrefix(SubSeq(tr, 1, Len(tr) - 1), Order) ELSE IsPrefix(tr, Order)

C7_State ==
  \A j \in JobIds :
    LET tr == hist[j].trace IN
    /\ InOrder(tr)
    /\ Failed(tr) => (run[j].pc = "done" /\ (Bound(j) => jobs[j].status # "finished"))
    /\ (Bound(j) /\ jobs[j].status = "finished") => tr = Order

C7_Step ==
  \A j \in JobIds :
    /\ Failed(hist[j].trace) => hist'[j].trace = hist[j].trace
    /\ (~Failed(hist[j].trace) /\ Failed(hist'[j].trace))
         => /\ j \in DOMAIN jobs'
            /\ jobs'[j].status = "error"
            /\ jobs'[j].message \in ErrorMessages

\* C7: the Runner's steps happen in the order probe, validate, plan, split,
\* enumerate, package, finish; a failing step writes status error with a
\* message, no later step is executed, and the record is never finished.
C7_StrictOrder == []C7_State /\ [][C7_Step]_vars

C7_Witness ==
  \E j \in DOMAIN jobs :
    /\ hist[j].trace = <<"start", "probe", "validate", "plan", "split", "error">>
    /\ jobs[j].status = "error"
    /\ jobs[j].message = "ffmpeg failed"
    /\ disk[j].parts > 0
    /\ ~disk[j].zip

\* a step of the status or the download handler, or of the cleanup task
RequestStep == req' # req \/ resp'.op \in {"status", "download"}

\* C8: once a Retrieve of a finished job has sent the archive and the cleanup
\* it scheduled has run, the storage is gone, the record is gone, every later
\* GetStatus answers NotFound and no later Retrieve gets past its first check.
C8_ReclaimedGone ==
  [][\A j \in JobIds :
       hist[j].reclaimed
         => /\ ~disk[j].dir
            /\ ~Bound(j)
            /\ (resp'.op = "status" /\ resp'.id = j) => resp'.result = "NotFound"
            /\ \A r \in Slots :
                 (req[r].pc = "idle" /\ req'[r].id = j) => req'[r].pc = "idle"]_vars

StorageShrinks(j) ==
  \/ disk[j].dir /\ ~disk'[j].dir
  \/ disk[j].input /\ ~disk'[j].input
  \/ disk[j].out /\ ~disk'[j].out
  \/ disk[j].zip /\ ~disk'[j].zip
  \/ disk'[j].parts < disk[j].parts

\* C9: a record and its storage are removed only by the cleanup of a Retrieve
\* that found the job finished; a job in error keeps its record, status and
\* message through every GetStatus and Retrieve.
C9_RemovedOnlyWhenFinished ==
  [][\A j \in JobIds :
       /\ (Bound(j) /\ j \notin DOMAIN jobs')
            => /\ jobs[j].status = "finished"
               /\ \E r \in Slots : req[r] = [pc |-> "c235", id |-> j] /\ req'[r] = IdleReq
       /\ StorageShrinks(j)
            => /\ Bound(j) /\ jobs[j].status = "finished"
               /\ \E r \in Slots : req[r] = [pc |-> "c234", id |-> j] /\ req'[r].pc = "c235"
       /\ (Bound(j) /\ jobs[j].status = "error" /\ RequestStep)
            => /\ j \in DOMAIN jobs'
               /\ jobs'[j] = jobs[j]
               /\ disk'[j] = disk[j]]_vars

C9_Witness ==
  \E j \in DOMAIN jobs :
    /\ jobs[j].status = "error"
    /\ jobs[j].message # "queued"
    /\ disk[j].dir /\ disk[j].input
    /\ resp.op = "download" /\ resp.id = j /\ resp.result = "NotReady"

C10_Step ==
  /\ (resp'.op = "download" /\ resp'.result = "Archive")
       => job_of(resp'.id).status = "finished"
  /\ (resp'.op = "download" /\ req' = req)
       => (resp'.id \notin DOMAIN jobs /\ resp'.result = "NotFound")
  /\ \A r \in Slots :
       /\ (req[r].pc = "idle" /\ req'[r].pc # "idle") => req'[r].id \in DOMAIN jobs
       /\ (req[r].pc = "d223" /\ req'[r] # req[r])
            => IF job_of(req[r].id).status = "finished"
                 THEN req'[r].pc = "d226" /\ resp' = NoResp
                 ELSE /\ resp'.op = "download" /\ resp'.id = req[r].id
                      /\ resp'.result = "NotReady"
                      /\ req'[r] = IdleReq
  /\ (resp'.op = "download" /\ resp'.result \in {"NotFound", "NotReady"})
       => /\ jobs' = jobs
          /\ disk' = disk
          /\ \A r \in Slots : req'[r] # req[r] => req'[r] = IdleReq

\* C10: Retrieve answers with the archive only for a finished job, NotFound
\* for an identifier the registry does not hold and NotReady for a job that is
\* queued, processing or error; these two answers schedule no cleanup and
\* leave the registry and the storage as they were.
C10_RetrieveOnlyFinished == [][C10_Step]_vars

C10_Witness ==
  \E j \in DOMAIN jobs :
    /\ jobs[j].status \in {"queued", "processing"}
    /\ resp.op = "download" /\ resp.id = j /\ resp.result = "NotReady"
    /\ \A r \in Slots : req[r].pc = "idle"

\* a form the spec accepts: a mode of the two, with its positive parameter
WellFormed(f) ==
  /\ f.mode \in {"count", "size"}
  /\ f.mode = "count" => (f.count # None /\ f.count[1] > 0)
  /\ f.mode = "size" => (f.size_mb # None /\ f.size_mb[1][1] > 0)

C11_Step ==
  /\ (resp'.op = "upload" /\ resp'.result = "ValidationError")
       => UNCHANGED <<jobs, disk, up, run, req, hist>>
  /\ \A j \in JobIds :
       (up[j] = "idle" /\ up'[j] = "saved")
         => (run'[j].params # None /\ WellFormed(run'[j].params[1]))

\* C11: a Submit with an invalid mode, or a missing or non-positive count or
\* size for its mode, is answered with a validation error and changes nothing:
\* no identifier, no record, no storage, no Runner; only a well-formed Submit
\* takes an identifier.
C11_RejectChangesNothing == [][C11_Step]_vars

C11_Witness ==
  /\ resp.op = "upload" /\ resp.result = "ValidationError"
  /\ jobs = <<>>
  /\ \A j \in JobIds : up[j] = "idle" /\ disk[j] = NoDisk /\ run[j] = IdleRun

\* the snapshot a GetStatus answer carries: NotFound, or the four fields
Snapshot(a) ==
  IF a.view = None
    THEN [found |-> FALSE]
    ELSE [found |-> TRUE, status |-> a.view[1].status, message |-> a.view[1].message,
          total_parts |-> a.view[1].total_parts,
          completed_parts |-> a.view[1].completed_parts]

C12_Step ==
  resp'.op = "status" =>
    /\ UNCHANGED <<jobs, disk, up, run, req, hist>>
    /\ resp'.result = "NotFound" <=> resp'.view = None
    /\ \A j \in JobIds :
         (resp'.id = j /\ polled[j] # None)
           => Snapshot(resp') = Snapshot(polled[j][1].answer)

\* C12: GetStatus changes neither the registry nor any job's storage, and a
\* GetStatus for an identifier returns the snapshot (or NotFound) that the
\* previous GetStatus for it returned when the registry's entry has not
\* changed in between.
C12_StatusReadOnly == [][C12_Step]_vars

\* a snapshot returned twice with another request's step between the calls
C12_Witness ==
  \E j \in JobIds :
    /\ resp.op = "status" /\ resp.id = j /\ resp.view # None
    /\ polled[j] # None /\ polled[j][1].calls = 2
    /\ \E r \in Slots : req[r].pc = "d223"

\* the thread of job j holds a plan and is about to run the split tool
Planned(j) == run[j].pc = "split"

\* C13: every plan handed to the split tool, in count mode as well as in size
\* mode, has a segment length of at least one second.
C13_SegmentAtLeastOne ==
  \A j \in JobIds : Planned(j) => RLeq(One, run[j].seg_seconds[1])

\* C13, amended: every size-mode plan handed to the split tool has a segment
\* length of at least one second.
C13_SizeSegmentAtLeastOne ==
  \A j \in JobIds :
    (Planned(j) /\ run[j].params[1].mode = "size")
      => RLeq(One, run[j].seg_seconds[1])

\* a size-mode plan whose target is below one second of the stream
C13_Witness ==
  \E j \in JobIds :
    /\ Planned(j) /\ run[j].params[1].mode = "size"
    /\ target_bytes(run[j].params[1].size_mb[1]) = 0
    /\ run[j].seg_seconds = Some(One)

\* the thread of job j takes its planning step in the given mode
Plans(j, mode) ==
  /\ run[j].pc = "plan" /\ run'[j] # run[j]
  /\ run[j].params[1].mode = mode

C14_State ==
  \A j \in JobIds :
    (Planned(j) /\ run[j].params[1].mode = "count")
      => LET n == run[j].params[1].count[1]
             D == run[j].duration[1]
             seg == run[j].seg_seconds[1]
         IN n > 0 /\ D > 0 /\ seg[1] * n = D * seg[2]

C14_Step ==
  \A j \in JobIds :
    Plans(j, "count")
      => /\ run'[j].pc = "split"
         /\ run'[j].params = run[j].params /\ run'[j].duration = run[j].duration
         /\ j \in DOMAIN jobs'
         /\ jobs'[j].total_parts = Some(run[j].params[1].count[1])

\* C14: in count mode, for every positive n and duration D > 0, the Runner's
\* planning step writes total_parts = n into the job's record and leaves the
\* thread before the split tool with segment length D / n.
C14_CountPlan == []C14_State /\ [][C14_Step]_vars

\* a one-second source to be split into 2 parts
C14_Witness ==
  \E j \in JobIds :
    /\ Planned(j) /\ run[j].params[1].mode = "count"
    /\ run[j].params[1].count = Some(2) /\ run[j].duration = Some(1)
    /\ run[j].seg_seconds = Some(<<1, 2>>)
    /\ j \in DOMAIN jobs /\ jobs[j].total_parts = Some(2)

\* the planning step of job j is the size-mode plan for the target (in bytes)
\* and the byte rate: the plan recorded when the rate is positive, the error
\* without a split otherwise
PlansAs(j, target, bps) ==
  LET D == <<run[j].duration[1], 1>> IN
  IF RLess(Zero, bps)
    THEN LET seg == RMax(One, RDiv(target, bps))
             parts == RCeil(RDiv(D, seg))
         IN /\ run'[j].pc = "split"
            /\ run'[j].seg_seconds = Some(seg)
            /\ j \in DOMAIN jobs' /\ jobs'[j].total_parts = Some(parts)
            /\ parts >= 1
    ELSE /\ run'[j].pc = "done"
         /\ j \in DOMAIN jobs' /\ jobs'[j].status = "error"
         /\ \A k \in DOMAIN hist'[j].trace : hist'[j].trace[k] # "split"

C15_Step ==
  \A j \in JobIds :
    Plans(j, "size")
      => LET m == run[j].params[1].size_mb[1]
             i == run[j].info[1]
             D == run[j].duration[1]
         IN PlansAs(j, RMul(m, <<MiB, 1>>),
                    IF i.bit_rate # None THEN Rat(i.bit_rate[1], 8) ELSE Rat(i.size, D))

\* C15: in size mode the byte rate is bitRate / 8 when the bit rate is known
\* and fileSizeBytes / D otherwise; with a positive rate the plan is
\* segmentSeconds = max(1, m * 1024 * 1024 / rate) with ceil(D / segmentSeconds)
\* >= 1 parts recorded as total_parts before the split; otherwise the job goes
\* to error without a split.
C15_SizePlan == [][C15_Step]_vars

C15_AmendedStep ==
  \A j \in JobIds :
    Plans(j, "size")
      => LET m == run[j].params[1].size_mb[1]
             i == run[j].info[1]
             D == run[j].duration[1]
         IN PlansAs(j, <<RInt(RMul(m, <<MiB, 1>>)), 1>>,
                    IF i.bit_rate # None /\ i.bit_rate[1] # 0
                      THEN Rat(i.bit_rate[1], 8) ELSE Rat(i.size, D))

\* C15, amended: the target is the whole number of bytes in m megabytes, and
\* a bit rate of 0 counts as unknown; the rest as stated.
C15_SizePlanTruncated == [][C15_AmendedStep]_vars

\* a target of 1.5 bytes at half a byte per second: 2-second segments
C15_Witness ==
  \E j \in JobIds :
    /\ Planned(j) /\ run[j].params[1].mode = "size"
    /\ run[j].params[1].size_mb = Some(Rat(3, 2 * MiB))
    /\ run[j].info = Some([bit_rate |-> None, size |-> 1])
    /\ run[j].duration = Some(2)
    /\ run[j].seg_seconds = Some(<<2, 1>>)
    /\ j \in DOMAIN jobs /\ jobs[j].total_parts = Some(1)

\* C17: a Retrieve that has passed the finished and archive-exists checks and
\* is about to stream the archive finds the archive on disk: no other
\* Retrieve's reclamation deletes it between the checks and the streaming.
C17_ArchiveAtStream ==
  \A r \in Slots : req[r].pc = "send" => disk[req[r].id].zip

\* the step is one of job a: of its Submit, its Runner, or a Retrieve or
\* reclamation for it
StepOf(a) ==
  \/ up'[a] # up[a]
  \/ run'[a] # run[a]
  \/ \E r \in Slots : req'[r] # req[r] /\ (req[r].id = a \/ req'[r].id = a)

C16_Step ==
  \A a \in JobIds, b \in JobIds :
    (a # b /\ StepOf(a))
      => (Lookup(jobs', b) = Lookup(jobs, b) /\ disk'[b] = disk[b])

\* C16: every step of Submit, the Runner, Retrieve and reclamation for a job
\* leaves the record and the storage of every other job unchanged.
C16_JobsIndependent == [][C16_Step]_vars

====
